---- MODULE Spec2Model ----
(***************************************************************************)
(* grabeklis-api: a FastAPI backend that reads news articles from MongoDB, *)
(* forwards prompts to a Google ADK api_server and stores daily summaries. *)
(*                                                                         *)
(* The module models                                                       *)
(*   - services/adk_service.py  : get_or_create_adk_session,               *)
(*                                prompt_adk_agent                         *)
(*   - routers/agent_router.py  : chat_with_agent_endpoint,                *)
(*                                summarise_agent_articles                 *)
(*   - routers/lsm_router.py    : summarise_agent_articles (POST),         *)
(*                                get_daily_summary (GET)                  *)
(*   - routers/general_router.py: parse_date, fetch_article and the three  *)
(*                                handlers that use them                   *)
(*   - utils/lsm.py             : get_articles_by_date, upsert_summary,    *)
(*                                get_daily_summary                        *)
(*                                                                         *)
(* One request is in flight at a time; every await of a handler is one     *)
(* step, and pc is the handler's position.  The remote systems (ADK        *)
(* api_server, MongoDB, the generation model) answer nondeterministically. *)
(* The settings object is taken to supply every field the handlers read.   *)
(***************************************************************************)
EXTENDS Integers, Sequences, FiniteSets, TLC

VARIABLES
    pc,             \* position of the request in flight ("idle" when none)
    endpoint,       \* which handler is running
    req,            \* the request's parameters
    calls,          \* outbound calls of the request in flight, in order
    status,         \* HTTP status answered to the caller (0: none yet)
    adk_sessions,   \* sessions that exist on the ADK api_server
    create_fails,   \* the api_server fails this many session POSTs of the request
    articles,       \* the article collection, in natural (insertion) order
    fetched,        \* the handler's local `articles` after the fetch
    summaries,      \* the daily-summary collection: a sequence of documents
    reply,          \* the generation model's answer to the request in flight
    result,         \* the body the POST /lsm/summary/daily handler returned
    clock,          \* the wall clock read by datetime.now
    upserting       \* upsert_summary calls in flight, one place per worker

vars == << pc, endpoint, req, calls, status, adk_sessions, create_fails,
           articles, fetched, summaries, reply, result, clock, upserting >>

(***************************************************************************)
(* Bounds of the model.                                                    *)
(***************************************************************************)
MaxFails == 5        \* the api_server fails at most this many POSTs in a row

(***************************************************************************)
(* Calendar.  A YYYYMMDD string is the triple of its fields; a datetime is *)
(* the number of hours since 2024-01-01T00:00 UTC.                         *)
(***************************************************************************)
IsLeap(y) == (y % 4 = 0 /\ y % 100 # 0) \/ y % 400 = 0

DaysInMonth(y, m) ==
    IF m \in {4, 6, 9, 11} THEN 30
    ELSE IF m = 2 THEN (IF IsLeap(y) THEN 29 ELSE 28)
    ELSE 31

DateStr(y, m, d) == [y |-> y, m |-> m, d |-> d]

\* The strings the handlers are called with: every one matches ^\d{8}$.
DateStrings ==
    { DateStr(2024, 2, 28), DateStr(2024, 2, 29), DateStr(2024, 12, 31),
      DateStr(2025, 1, 1), DateStr(2025, 2, 29), DateStr(2025, 13, 1) }

\* datetime.strptime(s, "%Y%m%d") raises ValueError on these.
ValidDate(s) ==
    /\ s.y >= 1
    /\ s.m \in 1..12
    /\ s.d \in 1..DaysInMonth(s.y, s.m)

RECURSIVE DaysBeforeYear(_)
DaysBeforeYear(y) ==
    IF y <= 2024 THEN 0
    ELSE DaysBeforeYear(y - 1) + (IF IsLeap(y - 1) THEN 366 ELSE 365)

RECURSIVE DaysBeforeMonth(_, _)
DaysBeforeMonth(y, m) ==
    IF m <= 1 THEN 0 ELSE DaysBeforeMonth(y, m - 1) + DaysInMonth(y, m - 1)

\* datetime.strptime(s, "%Y%m%d") of a valid string, as hours since the epoch.
strptime(s) == 24 * (DaysBeforeYear(s.y) + DaysBeforeMonth(s.y, s.m) + (s.d - 1))

RECURSIVE MonthOf(_, _, _)
MonthOf(y, m, dayOfYear) ==
    IF dayOfYear < DaysInMonth(y, m) THEN DateStr(y, m, dayOfYear + 1)
    ELSE MonthOf(y, m + 1, dayOfYear - DaysInMonth(y, m))

RECURSIVE YearOf(_, _)
YearOf(y, days) ==
    IF days < (IF IsLeap(y) THEN 366 ELSE 365) THEN MonthOf(y, 1, days)
    ELSE YearOf(y + 1, days - (IF IsLeap(y) THEN 366 ELSE 365))

\* dt.strftime("%Y%m%d") of a datetime at or after the epoch.
strftime(dt) == YearOf(2024, dt \div 24)


(***************************************************************************)
(* The article collection (written by an external collector, read here).   *)
(***************************************************************************)
Article(id, url, title, category, date) ==
    [id |-> id, url |-> url, title |-> title, category |-> category,
     date |-> date, article |-> "text of " \o id]

NoDuplicates(s) == \A i, j \in 1..Len(s) : s[i] = s[j] => i = j

\* filter(pred) over a sequence, keeping its order.
RECURSIVE SelectSeqBy(_, _)
SelectSeqBy(s, keep) ==
    IF s = << >> THEN << >>
    ELSE IF Head(s) \in keep THEN << Head(s) >> \o SelectSeqBy(Tail(s), keep)
    ELSE SelectSeqBy(Tail(s), keep)

Range(s) == { s[i] : i \in 1..Len(s) }

\* cursor.to_list(length=n)
to_list(s, n) == IF Len(s) <= n THEN s ELSE SubSeq(s, 1, n)

(***************************************************************************)
(* The ADK api_server as the service sees it.                              *)
(***************************************************************************)
RequestError == -1      \* httpx.RequestError: no HTTP response at all

Agents == { "lsm_agent", "chat_agent" }
ADK_SYSTEM_USERNAME == "system"
ADK_SYSTEM_SESSION_ID == "system_session"

SessionKey(app_name, user_id, session_id) ==
    [app_name |-> app_name, user_id |-> user_id, session_id |-> session_id]

NoRequest ==
    [app_name |-> "", user_id |-> "", session_id |-> "",
     date |-> DateStr(2024, 2, 29), dt |-> 0, limit |-> [given |-> FALSE, n |-> 0]]

\* The response model of POST /lsm/summary/daily.
MongoUpdateResult(did_upsert, matched_count, modified_count, upserted_id) ==
    [did_upsert |-> did_upsert, matched_count |-> matched_count,
     modified_count |-> modified_count, upserted_id |-> upserted_id]

\* Values of a request that has not got that far.
NoReply == [kind |-> "none", summaries |-> << >>]
NoResult == [detail |-> "", res |-> MongoUpdateResult(FALSE, 0, 0, 0)]

ReqKey == SessionKey(req.app_name, req.user_id, req.session_id)

\* Response.raise_for_status(): every 2xx passes, anything else raises.
is_success(code) == code >= 200 /\ code <= 299

\* What GET /apps/../sessions/.. can answer for a session key.
GetAnswers(key) ==
    (IF key \in adk_sessions THEN {200, 203} ELSE {404})
        \cup {403, 500, RequestError}

Call(op, key, resp) == [op |-> op, key |-> key, resp |-> resp]

CountOp(op) == Cardinality({ i \in 1..Len(calls) : calls[i].op = op })

\* What the k-th POST of the request answers: the first create_fails fail.
PostAnswers ==
    IF CountOp("POST_session") < create_fails THEN {500, RequestError} ELSE {200}

\* Where a handler of agent_router.py goes once the session call returned.
AfterSession == IF endpoint = "chat" THEN "prompt" ELSE "find"

\* Faulty variant: the handler swallows the exception and goes on to the agent.
RaiseHTTP_swallowed(code) ==
    /\ status' = code
    /\ pc' = "prompt"

\* raise HTTPException(status_code=code) leaving the handler:
\* `except HTTPException as e: raise e` answers it unchanged.
RaiseHTTP(code) ==
    /\ status' = code
    /\ pc' = "done"

(***************************************************************************)
(* ADKService.get_or_create_adk_session, step 1: GET the session.          *)
(***************************************************************************)
\* Faulty variant: every failed probe is taken for "session absent".
ProbeResult_absent_on_error(r) ==
    IF r # RequestError /\ is_success(r) THEN [then |-> "return", code |-> r]
    ELSE [then |-> "create", code |-> r]

\* What the service does with the answer of the GET.
ProbeResult(r) ==
    IF r = RequestError THEN [then |-> "raise", code |-> 503]
    ELSE IF is_success(r) THEN [then |-> "return", code |-> r]
    ELSE IF r = 404 THEN [then |-> "create", code |-> r]
    ELSE [then |-> "raise", code |-> r]

GetSession ==
    /\ pc = "get_session"
    /\ \E r \in GetAnswers(ReqKey) :
          /\ calls' = Append(calls, Call("GET_session", ReqKey, r))
          /\ LET p == ProbeResult(r) IN
                CASE p.then = "return" -> pc' = AfterSession /\ status' = status
                  [] p.then = "create" -> pc' = "post_session" /\ status' = status
                  [] OTHER -> RaiseHTTP(p.code)
    /\ UNCHANGED << endpoint, req, adk_sessions, create_fails, articles, fetched,
                    summaries, reply, result, clock, upserting >>

(***************************************************************************)
(* ADKService.get_or_create_adk_session, step 2: POST (create) it.         *)
(***************************************************************************)
\* Faulty variant: every failed create is reported as 503.
CreateResult_always_503(r) ==
    IF r # RequestError /\ is_success(r) THEN [then |-> "return", code |-> r]
    ELSE [then |-> "raise", code |-> 503]

\* What the service does with the answer of the POST.
CreateResult(r) ==
    IF r = RequestError THEN [then |-> "raise", code |-> 503]
    ELSE IF is_success(r) THEN [then |-> "return", code |-> r]
    ELSE [then |-> "raise", code |-> r]

\* Faulty variant: a failed create goes back to the probe while the api_server
\* still fails creates, instead of raising.
PostSession_retry ==
    /\ pc = "post_session"
    /\ \E r \in PostAnswers :
          /\ calls' = Append(calls, Call("POST_session", ReqKey, r))
          /\ adk_sessions' =
                IF is_success(r) THEN adk_sessions \cup {ReqKey} ELSE adk_sessions
          /\ pc' = IF is_success(r) THEN AfterSession ELSE "get_session"
          /\ status' = status
    /\ UNCHANGED << endpoint, req, create_fails, articles, fetched, summaries,
                    reply, result, clock, upserting >>

PostSession ==
    /\ pc = "post_session"
    /\ \E r \in PostAnswers :
          /\ calls' = Append(calls, Call("POST_session", ReqKey, r))
          /\ adk_sessions' =
                IF is_success(r) THEN adk_sessions \cup {ReqKey} ELSE adk_sessions
          /\ LET c == CreateResult(r) IN
                CASE c.then = "return" -> pc' = AfterSession /\ status' = status
                  [] OTHER -> RaiseHTTP(c.code)
    /\ UNCHANGED << endpoint, req, create_fails, articles, fetched, summaries,
                    reply, result, clock, upserting >>


(***************************************************************************)
(* ADKService.prompt_adk_agent: one POST /run.                             *)
(***************************************************************************)
RunAnswers == {200, 404, 500, RequestError}

\* The response text of a /run call that was answered with an error status.
RunBodies == { "agent not found", "internal error" }

\* The detail of the HTTPException prompt_adk_agent raises.
PromptDetail(r, text) ==
    IF r = RequestError THEN "Could not connect to ADK api_server run service"
    ELSE "Failed to prompt ADK agent via api_server: " \o text

\* Faulty variant: every failed run is reported as an internal error.
PromptResult_as_500(r) ==
    IF r # RequestError /\ is_success(r) THEN [then |-> "return", code |-> r]
    ELSE [then |-> "raise", code |-> 500]

PromptResult(r) ==
    IF r = RequestError THEN [then |-> "raise", code |-> 503]
    ELSE IF is_success(r) THEN [then |-> "return", code |-> r]
    ELSE [then |-> "raise", code |-> r]

(***************************************************************************)
(* routers/agent_router.py                                                 *)
(***************************************************************************)
ChatUsers == { "alice" }
ChatSessions == { "s1" }

\* The article window of a day: [midnight, midnight + 1 day 3 hours).
start_of_day(dt) == dt - (dt % 24)
end_of_day(dt) == start_of_day(dt) + 24 + 3

\* col.find({"date": {"$gte": start_of_day, "$lt": end_of_day}})
find_by_date(col, dt) ==
    SelectSeqBy(col, { a \in Range(col) :
                          a.date >= start_of_day(dt) /\ a.date < end_of_day(dt) })

Idle == pc = "idle"

\* A request arrives at POST /agent/{agent_name}.
chat_with_agent_endpoint(agent_name, username, session_id, fails) ==
    /\ Idle
    /\ pc' = "get_session"
    /\ endpoint' = "chat"
    /\ req' = [NoRequest EXCEPT !.app_name = agent_name, !.user_id = username,
                                !.session_id = session_id]
    /\ calls' = << >>
    /\ status' = 0
    /\ create_fails' = fails
    /\ fetched' = << >>
    /\ reply' = NoReply
    /\ result' = NoResult
    /\ UNCHANGED << adk_sessions, articles, summaries, clock, upserting >>

\* A request arrives at GET /agent/summary/daily/{agent_name}.
agent_summary_endpoint(agent_name, date, fails) ==
    /\ Idle
    /\ pc' = "get_session"
    /\ endpoint' = "agent_summary"
    /\ req' = [NoRequest EXCEPT !.app_name = agent_name,
                                !.user_id = ADK_SYSTEM_USERNAME,
                                !.session_id = ADK_SYSTEM_SESSION_ID,
                                !.date = date]
    /\ calls' = << >>
    /\ status' = 0
    /\ create_fails' = fails
    /\ fetched' = << >>
    /\ reply' = NoReply
    /\ result' = NoResult
    /\ UNCHANGED << adk_sessions, articles, summaries, clock, upserting >>

\* Faulty variant: the handler goes on with an empty list of articles.
no_articles_unchecked(found) == FALSE

\* `if not articles or len(articles) == 0`
no_articles(found) == Len(found) = 0

\* agent_router.summarise_agent_articles after the session call: parse the
\* date, query the day's articles, answer 404 when there are none.
AgentFind ==
    /\ pc = "find"
    /\ endpoint = "agent_summary"
    /\ IF ~ValidDate(req.date)
          THEN \* strptime raises ValueError: `except Exception` answers 500
               /\ status' = 500
               /\ pc' = "done"
               /\ UNCHANGED << calls, fetched >>
          ELSE LET found == to_list(find_by_date(articles, strptime(req.date)), 100) IN
               /\ calls' = Append(calls, Call("find", ReqKey, Len(found)))
               /\ fetched' = found
               /\ IF no_articles(found)
                     THEN status' = 404 /\ pc' = "done"
                     ELSE status' = status /\ pc' = "prompt"
    /\ UNCHANGED << endpoint, req, adk_sessions, create_fails, articles, summaries,
                    reply, result, clock, upserting >>

\* Both handlers: prompt_adk_agent, then the handler's use of the reply.
\* reply_ok: the reply of the agent parses as a ResponseSchema.
PromptAgent ==
    /\ pc = "prompt"
    /\ \E r \in RunAnswers, reply_ok \in BOOLEAN :
          /\ calls' = Append(calls, Call("POST_run", ReqKey, r))
          /\ LET p == PromptResult(r) IN
                IF p.then = "raise"
                THEN \E text \in (IF r = RequestError THEN {""} ELSE RunBodies) :
                        /\ ~reply_ok
                        /\ RaiseHTTP(p.code)
                        /\ reply' = [kind |-> "run", summaries |-> << >>,
                                     text |-> text]
                        /\ result' = [NoResult EXCEPT
                                         !.detail = PromptDetail(r, text)]
                ELSE /\ pc' = "done"
                     /\ status' = IF endpoint = "chat" \/ reply_ok THEN 200 ELSE 500
                     /\ UNCHANGED << reply, result >>
    /\ UNCHANGED << endpoint, req, adk_sessions, create_fails, articles, fetched,
                    summaries, clock, upserting >>

(***************************************************************************)
(* The external collector adds an article to the collection.               *)
(***************************************************************************)
MaxArticles == 2

Day == strptime(DateStr(2024, 2, 29))

SummaryPool ==
    { Article("A1", "U1", "T1", "Latvija", Day),
      Article("A2", "U2", "T2", "Pasaule", Day + 26),
      Article("A3", "U1", "T3", "Latvija", Day + 5),
      Article("A4", "U4", "T4", "Virtuve", Day + 1) }

Ingest(pool) ==
    /\ Idle
    /\ Len(articles) < MaxArticles
    /\ \E a \in pool :
          /\ \A i \in 1..Len(articles) : articles[i].id # a.id
          /\ articles' = Append(articles, a)
    /\ UNCHANGED << pc, endpoint, req, calls, status, adk_sessions, create_fails,
                    fetched, summaries, reply, result, clock, upserting >>

(***************************************************************************)
(* utils/lsm.py                                                            *)
(***************************************************************************)
LSM_SKIP_CATEGORIES ==
    { "Valasprieki", "Virtuve", "Laika zinas", "Celosana", "Cilvekstasti",
      "Ikdienai", "Zinas vieglaja valoda", "Podkasti", "Vesture", "Sarunas",
      "Skatpunts" }

\* Faulty variant: the window ends at the next midnight, without the 3 hours.
get_articles_by_date_24h(col, dt) ==
    SelectSeqBy(col, { a \in Range(col) :
                          /\ a.date >= start_of_day(dt)
                          /\ a.date < start_of_day(dt) + 24
                          /\ a.category \notin LSM_SKIP_CATEGORIES })

\* get_articles_by_date(col, dt, find): the documents, in natural order, with
\* start_of_day <= date < end_of_day and a category not in the skip list.
get_articles_by_date(col, dt) ==
    SelectSeqBy(col, { a \in Range(col) :
                          /\ a.date >= start_of_day(dt)
                          /\ a.date < end_of_day(dt)
                          /\ a.category \notin LSM_SKIP_CATEGORIES })

\* update {"$set": upd} applied to a document.
SetFields(doc, upd) ==
    [f \in (DOMAIN doc) \cup (DOMAIN upd) |->
        IF f \in DOMAIN upd THEN upd[f] ELSE doc[f]]

SetMin(S) == CHOOSE x \in S : \A y \in S : x <= y

MongoSummaryDocument(date, summ) == [date |-> date, summaries |-> summ]

\* The coroutines that can be inside upsert_summary at the same time, and
\* the place of one that is not.
Workers == { "w1", "w2" }
NoUpsert ==
    [pc |-> "idle", data |-> MongoSummaryDocument(DateStr(2024, 2, 29), << >>),
     now |-> 0]

\* Faulty variant: updated_at is written when the document is inserted only.
upsert_summary_set_on_insert(col, data, now) ==
    LET summary_datetime_utc == strptime(data.date)
        matched == { i \in 1..Len(col) : col[i].date = summary_datetime_utc }
    IN  IF matched = {}
        THEN [col |-> Append(col, [id |-> Len(col) + 1,
                                   date |-> summary_datetime_utc,
                                   summaries |-> data.summaries,
                                   updated_at |-> now]),
              res |-> MongoUpdateResult(TRUE, 0, 0, Len(col) + 1)]
        ELSE LET i == SetMin(matched)
             IN [col |-> [col EXCEPT ![i].summaries = data.summaries],
                 res |-> MongoUpdateResult(FALSE, 1, 1, 0)]

\* upsert_summary(col, data) reading `now` from the clock: the collection
\* after col.update_one(query, {"$set": document_to_upsert}, upsert=True),
\* and the MongoUpdateResult.  upserted_id 0 stands for None.
upsert_summary(col, data, now) ==
    LET summary_datetime_utc == strptime(data.date)
        document_to_upsert ==
            [date |-> summary_datetime_utc, summaries |-> data.summaries,
             updated_at |-> now]
        matched == { i \in 1..Len(col) : col[i].date = summary_datetime_utc }
    IN  IF matched = {}
        THEN [col |-> Append(col, SetFields([id |-> Len(col) + 1,
                                             date |-> summary_datetime_utc],
                                            document_to_upsert)),
              res |-> MongoUpdateResult(TRUE, 0, 0, Len(col) + 1)]
        ELSE LET i == SetMin(matched)
                 doc == SetFields(col[i], document_to_upsert)
             IN [col |-> [col EXCEPT ![i] = doc],
                 res |-> MongoUpdateResult(FALSE, 1,
                                           IF doc = col[i] THEN 0 ELSE 1, 0)]


(***************************************************************************)
(* routers/lsm_router.py: POST /lsm/summary/daily                          *)
(***************************************************************************)
\* limit: int = Query(default=None)
NoLimit == [given |-> FALSE, n |-> 0]
Limit(n) == [given |-> TRUE, n |-> n]

\* articles[:n]
SliceTo(s, n) ==
    IF n >= 0 THEN to_list(s, n)
    ELSE IF Len(s) + n <= 0 THEN << >> ELSE SubSeq(s, 1, Len(s) + n)

\* `if limit: articles = articles[:limit]`
apply_limit(s, limit) ==
    IF limit.given /\ limit.n # 0 THEN SliceTo(s, limit.n) ELSE s

\* Faulty variant: the title goes into the part as well.
for_request_with_title(a) ==
    [uuid |-> a.url, category |-> a.category, article |-> a.article,
     title |-> a.title]

\* The request part of an article: for_request.
for_request(a) == [uuid |-> a.url, category |-> a.category, article |-> a.article]

Parts(arts) == [i \in 1..Len(arts) |-> for_request(arts[i])]

SetMax(S) == CHOOSE x \in S : \A y \in S : x >= y

\* index[article["url"]] = article, in the order of the loop.
Index(arts) ==
    [u \in { arts[i].url : i \in 1..Len(arts) } |->
        arts[SetMax({ i \in 1..Len(arts) : arts[i].url = u })]]

\* What the generation model can answer.  kind "api_error": the call
\* raises; "no_text": the response carries no candidate text; "not_json":
\* json.loads raises; "bad_schema": AgentResponseSchema(**summaries) raises;
\* "ok": the text parses to `summaries`.
AgentArticle(uuid, summary) == [uuid |-> uuid, summary |-> summary]
AgentSummary(category, arts) == [category |-> category, articles |-> arts]

AgentArticles ==
    { AgentArticle("U1", "S1"), AgentArticle("U2", "S2"), AgentArticle("U9", "S1") }

AgentReplies ==
    { [kind |-> k, summaries |-> << >>] :
         k \in {"api_error", "no_text", "not_json", "bad_schema", "ok"} }
    \cup { [kind |-> "ok", summaries |-> << AgentSummary("Pasaule", << x >>) >>] :
              x \in AgentArticles }
    \cup { [kind |-> "ok", summaries |-> << AgentSummary("Pasaule", << x, y >>) >>] :
              x \in AgentArticles, y \in AgentArticles }
    \cup { [kind |-> "ok", summaries |-> << AgentSummary("Pasaule", << x >>),
                                            AgentSummary("Latvija", << y >>) >>] :
              x \in AgentArticles, y \in AgentArticles }

\* Every uuid of the parsed reply is a key of the index.
Resolves(summ, index) ==
    \A g \in 1..Len(summ) : \A k \in 1..Len(summ[g].articles) :
        summ[g].articles[k].uuid \in DOMAIN index

\* Faulty variant: a reply that does not parse counts as a reply without summaries.
parse_answer_defaulting(r) ==
    IF r.kind = "ok" THEN [raised |-> FALSE, summaries |-> r.summaries]
    ELSE [raised |-> FALSE, summaries |-> << >>]

\* Lines 128-136: json.loads(answer), AgentResponseSchema(**summaries).
parse_answer(r) ==
    IF r.kind = "ok" THEN [raised |-> FALSE, summaries |-> r.summaries]
    ELSE [raised |-> TRUE, summaries |-> << >>]

\* lsm_schemas.Article built from index[article.uuid] and the agent's text.
response_article(data, ref) ==
    [article_id |-> data.id, title |-> data.title, url |-> data.url,
     ai_summary |-> ref.summary]

\* response_summaries: the loop of lines 138-158 over a reply that resolves.
response_summaries(summ, index) ==
    [g \in 1..Len(summ) |->
        [category |-> summ[g].category,
         articles |-> [k \in 1..Len(summ[g].articles) |->
                          response_article(index[summ[g].articles[k].uuid],
                                           summ[g].articles[k])]]]

\* Faulty variant: references the index does not know are left out.
map_back_skipping(summ, index) ==
    LET known(g) == { x \in Range(summ[g].articles) : x.uuid \in DOMAIN index }
        kept == [g \in 1..Len(summ) |->
                    [summ[g] EXCEPT !.articles = SelectSeqBy(summ[g].articles, known(g))]]
    IN  [raised |-> FALSE, summaries |-> response_summaries(kept, index)]

\* Lines 138-158 as a whole: index[article.uuid] raises KeyError on a miss.
map_back(summ, index) ==
    IF Resolves(summ, index)
    THEN [raised |-> FALSE, summaries |-> response_summaries(summ, index)]
    ELSE [raised |-> TRUE, summaries |-> << >>]

LsmDates == { DateStr(2024, 2, 29), DateStr(2024, 12, 31), DateStr(2025, 2, 29) }
Limits == { NoLimit, Limit(-1), Limit(0), Limit(1), Limit(2) }
MaxClock == 3

\* A request arrives at POST /lsm/summary/daily.
lsm_summary_endpoint(date, limit) ==
    /\ Idle
    /\ pc' = "fetch"
    /\ endpoint' = "lsm_summary"
    /\ req' = [NoRequest EXCEPT !.date = date, !.limit = limit]
    /\ calls' = << >>
    /\ status' = 0
    /\ create_fails' = 0
    /\ fetched' = << >>
    /\ reply' = NoReply
    /\ result' = NoResult
    /\ UNCHANGED << adk_sessions, articles, summaries, clock, upserting >>

\* Lines 36-94: parse the date, fetch the day's articles, answer 404 when
\* there are none, cut to the limit, build parts and index, count tokens.
\* over: count_tokens reports more than token_limit tokens.
LsmFetch ==
    /\ pc = "fetch"
    /\ IF ~ValidDate(req.date)
          THEN /\ status' = 500
               /\ result' = [NoResult EXCEPT !.detail = "Unexpected exception occured"]
               /\ pc' = "done"
               /\ UNCHANGED << calls, fetched >>
          ELSE LET found == get_articles_by_date(articles, strptime(req.date)) IN
               IF no_articles(found)
               THEN /\ calls' = Append(calls, Call("find", ReqKey, Len(found)))
                    /\ status' = 404
                    /\ result' = [NoResult EXCEPT !.detail =
                                     "No articles found in the specified date range."]
                    /\ pc' = "done"
                    /\ fetched' = found
               ELSE \E over \in BOOLEAN :
                    /\ fetched' = apply_limit(found, req.limit)
                    /\ calls' = calls \o << Call("find", ReqKey, Len(found)),
                                            Call("count_tokens",
                                                 Parts(apply_limit(found, req.limit)),
                                                 IF over THEN 1 ELSE 0) >>
                    /\ IF over
                          THEN /\ status' = 500
                               /\ result' = [NoResult EXCEPT !.detail =
                                                "Unexpected exception occured"]
                               /\ pc' = "done"
                          ELSE /\ status' = status
                               /\ result' = result
                               /\ pc' = "generate"
    /\ UNCHANGED << endpoint, req, adk_sessions, create_fails, articles, summaries,
                    reply, clock, upserting >>

\* Lines 119-171: generate_content, the request log, the parse of the
\* answer, the mapping back through the index, upsert_summary.
LsmGenerate ==
    /\ pc = "generate"
    /\ \E r \in AgentReplies :
          LET sent == << Call("generate_content", Parts(fetched), 200),
                         Call("log_insert", ReqKey, 0) >>
              parsed == parse_answer(r)
              mapped == map_back(parsed.summaries, Index(fetched))
              Fail(detail, log) ==
                  /\ status' = 500
                  /\ result' = [NoResult EXCEPT !.detail = detail]
                  /\ calls' = calls \o log
                  /\ UNCHANGED << summaries, clock >>
          IN  /\ reply' = r
              /\ pc' = "done"
              /\ CASE r.kind = "api_error" ->
                        \* generate_content raises
                        Fail("Unexpected exception occured",
                             << Call("generate_content", Parts(fetched), 500) >>)
                   [] r.kind = "no_text" ->
                        \* res.candidates[0].content.parts[0].text raises
                        Fail("Unexpected exception occured", sent)
                   [] OTHER ->
                        IF parsed.raised
                        THEN Fail("Failed to parse agent response.", sent)
                        ELSE IF mapped.raised
                        THEN Fail("Unexpected exception occured", sent)
                        ELSE \E now \in (clock + 1)..MaxClock :
                             LET data == MongoSummaryDocument(
                                             strftime(strptime(req.date)),
                                             mapped.summaries)
                                 up == upsert_summary(summaries, data, now)
                             IN  /\ status' = 200
                                 /\ summaries' = up.col
                                 /\ clock' = now
                                 /\ result' = [detail |-> "", res |-> up.res]
                                 /\ calls' = calls \o sent
                                       \o << Call("upsert_summary", ReqKey, 0) >>
    /\ UNCHANGED << endpoint, req, adk_sessions, create_fails, articles, fetched,
                    upserting >>

(***************************************************************************)
(* The agent endpoints with the ADK service.                               *)
(***************************************************************************)
Init ==
    /\ pc = "idle"
    /\ endpoint = "none"
    /\ req = NoRequest
    /\ calls = << >>
    /\ status = 0
    /\ adk_sessions = {}
    /\ create_fails = 0
    /\ articles = << >>
    /\ fetched = << >>
    /\ summaries = << >>
    /\ reply = NoReply
    /\ result = NoResult
    /\ clock = 0
    /\ upserting = [w \in Workers |-> NoUpsert]

AgentDates == { DateStr(2024, 2, 29), DateStr(2024, 12, 31), DateStr(2025, 2, 29) }

\* The response has been sent: the handler's locals are gone.
Respond ==
    /\ pc = "done"
    /\ pc' = "idle"
    /\ endpoint' = "none"
    /\ req' = NoRequest
    /\ calls' = << >>
    /\ status' = 0
    /\ create_fails' = 0
    /\ fetched' = << >>
    /\ reply' = NoReply
    /\ result' = NoResult
    /\ UNCHANGED << adk_sessions, articles, summaries, clock, upserting >>

NextAgent ==
    \/ \E a \in Agents, u \in ChatUsers, s \in ChatSessions, f \in 0..MaxFails :
          chat_with_agent_endpoint(a, u, s, f)
    \/ \E a \in Agents, d \in AgentDates, f \in 0..MaxFails :
          agent_summary_endpoint(a, d, f)
    \/ GetSession
    \/ PostSession
    \/ AgentFind
    \/ PromptAgent
    \/ Respond
    \/ Ingest(SummaryPool)

SpecAgent == Init /\ [][NextAgent]_vars


(***************************************************************************)
(* Session bootstrap: what a request's call log says.                      *)
(***************************************************************************)
InRequest == endpoint \in {"chat", "agent_summary"}

\* get_or_create_adk_session is over (it returned or raised).
SessionCallOver == InRequest /\ pc \notin {"get_session", "post_session"}

\* get_or_create_adk_session returned session details.
SessionReturned ==
    \E i \in 1..Len(calls) :
        /\ calls[i].op \in {"GET_session", "POST_session"}
        /\ calls[i].resp # RequestError
        /\ is_success(calls[i].resp)

ProbeAlways404 ==
    /\ CountOp("GET_session") >= 1
    /\ \A i \in 1..Len(calls) : calls[i].op = "GET_session" => calls[i].resp = 404

\* The status an upstream answer r turns into: 503 for a network error.
Surfaced(r) == IF r = RequestError THEN 503 ELSE r

Probed == Len(calls) >= 1 /\ calls[1].op = "GET_session"

\* C3 as stated: a probe answered by any status other than 200 or 404, or
\* failing on the network, ends the call with an error at once: no create
\* call, no second probe.
C3_ProbeErrorFailsAtOnce ==
    (InRequest /\ Probed /\ calls[1].resp \notin {200, 404})
        => /\ pc = "done"
           /\ Len(calls) = 1
           /\ status = Surfaced(calls[1].resp)

\* C3 amended: a probe answered by any status outside 2xx other than 404,
\* or failing on the network, ends the call with an error at once: no
\* create call, no second probe, no agent call.
C3_ProbeNon2xxFailsAtOnce ==
    (InRequest /\ Probed /\ calls[1].resp \notin {404}
               /\ (calls[1].resp = RequestError \/ ~is_success(calls[1].resp)))
        => /\ pc = "done"
           /\ Len(calls) = 1
           /\ status = Surfaced(calls[1].resp)

C3_Witness ==
    /\ InRequest /\ Probed /\ pc = "done"
    /\ calls[1].resp = 500

\* C4: the agent is prompted only after the session call of the same
\* request succeeded for the same (app, user, session) triple; a request
\* whose session call failed never prompts the agent.
C4_PromptOnlyAfterSession ==
    \A i \in 1..Len(calls) :
        calls[i].op = "POST_run" =>
            \E j \in 1..(i - 1) :
                /\ calls[j].op \in {"GET_session", "POST_session"}
                /\ calls[j].key = calls[i].key
                /\ calls[j].resp # RequestError
                /\ is_success(calls[j].resp)

C4_Witness ==
    /\ endpoint = "agent_summary"
    /\ CountOp("POST_run") = 1
    /\ CountOp("POST_session") = 1



NextSummary ==
    \/ \E d \in LsmDates, l \in Limits : lsm_summary_endpoint(d, l)
    \/ LsmFetch
    \/ LsmGenerate
    \/ \E d \in LsmDates, f \in {0, 1} : agent_summary_endpoint("lsm_agent", d, f)
    \/ GetSession
    \/ PostSession
    \/ AgentFind
    \/ PromptAgent
    \/ Respond
    \/ Ingest(SummaryPool)

SpecSummary == Init /\ [][NextSummary]_vars


(***************************************************************************)
(* The summarization handlers.                                             *)
(***************************************************************************)
HasCall(op) == \E i \in 1..Len(calls) : calls[i].op = op

\* The daily-summary document stored for a YYYYMMDD string.
SummaryDocs(date) ==
    { i \in 1..Len(summaries) : summaries[i].date = strptime(date) }

\* The request in flight has had 0 articles from the store.
FoundNothing == \E i \in 1..Len(calls) : calls[i].op = "find" /\ calls[i].resp = 0

C5_Inv ==
    FoundNothing =>
        /\ pc = "done"
        /\ status = 404
        /\ calls[Len(calls)].op = "find"
        /\ ~HasCall("POST_run")
        /\ ~HasCall("count_tokens")
        /\ ~HasCall("generate_content")
        /\ ~HasCall("upsert_summary")

\* C5: a summarization request for which the store returns 0 articles ends
\* with 404; no agent or model call is made in it (the find is its last
\* outbound call) and the step that finds nothing leaves the daily-summary
\* collection as it was.
C5_NoArticlesNoAgentNoWrite ==
    /\ []C5_Inv
    /\ [][(pc \in {"fetch", "find"} /\ ~FoundNothing /\ FoundNothing')
            => summaries' = summaries]_vars

C5_Witness ==
    /\ endpoint = "lsm_summary"
    /\ FoundNothing
    /\ Len(articles) > 0
    /\ Len(summaries) > 0

\* The reply of the request in flight names a uuid the index does not hold.
LookupMiss ==
    /\ endpoint = "lsm_summary"
    /\ reply.kind = "ok"
    /\ \E g \in 1..Len(reply.summaries) :
          \E k \in 1..Len(reply.summaries[g].articles) :
              \A p \in 1..Len(fetched) :
                  reply.summaries[g].articles[k].uuid # fetched[p].url

\* C6: a reply with an article reference whose uuid is in no entry of the
\* request's index ends the request with an error (500); upsert_summary is
\* not called and the daily-summary collection is left as it was, also when
\* references before the miss resolved.
C6_LookupMissNotPersisted ==
    /\ [](LookupMiss => (pc = "done" /\ status = 500 /\ ~HasCall("upsert_summary")))
    /\ [][(pc = "generate" /\ LookupMiss') => summaries' = summaries]_vars

C6_Witness ==
    /\ LookupMiss
    /\ Len(fetched) >= 1
    /\ Len(reply.summaries) = 1
    /\ Len(reply.summaries[1].articles) = 2
    /\ reply.summaries[1].articles[1].uuid = fetched[1].url
    /\ reply.summaries[1].articles[2].uuid = "U9"

ParseFailure ==
    /\ endpoint = "lsm_summary"
    /\ reply.kind \in {"not_json", "bad_schema"}

\* C7: a reply that is not JSON or does not conform to the response schema
\* ends the request with 500 "Failed to parse agent response."; upsert_summary
\* is not called and the daily-summary collection is left as it was.
C7_ParseFailureNotPersisted ==
    /\ [](ParseFailure =>
            /\ pc = "done"
            /\ status = 500
            /\ result.detail = "Failed to parse agent response."
            /\ ~HasCall("upsert_summary"))
    /\ [][(pc = "generate" /\ ParseFailure') => summaries' = summaries]_vars

C7_Witness ==
    /\ ParseFailure
    /\ reply.kind = "bad_schema"
    /\ HasCall("log_insert")

\* The request in flight has persisted its summary.
Persisted ==
    /\ endpoint = "lsm_summary"
    /\ pc = "done"
    /\ status = 200

\* The persisted entry at place (g, k) is article a summarized by S.
EntryIs(doc, g, k, a, S) ==
    doc.summaries[g].articles[k] =
        [article_id |-> a.id, title |-> a.title, url |-> a.url, ai_summary |-> S]

\* The persisted document has the categories and the article places of the
\* reply, in the reply's order.
SameShape(doc) ==
    /\ Len(doc.summaries) = Len(reply.summaries)
    /\ \A g \in 1..Len(reply.summaries) :
          /\ doc.summaries[g].category = reply.summaries[g].category
          /\ Len(doc.summaries[g].articles) = Len(reply.summaries[g].articles)

\* C8: for every article sent in the request, a reference echoing that
\* article's correlation id with summary S is persisted, at its place, as
\* that article's store id, title and url with ai_summary S; categories and
\* articles are persisted in the reply's order and grouping.
C8_RoundTrip ==
    Persisted =>
        \A d \in SummaryDocs(req.date) :
            /\ SameShape(summaries[d])
            /\ \A g \in 1..Len(reply.summaries) :
                  \A k \in 1..Len(reply.summaries[g].articles) :
                      \A p \in 1..Len(fetched) :
                          reply.summaries[g].articles[k].uuid = for_request(fetched[p]).uuid
                              => EntryIs(summaries[d], g, k, fetched[p],
                                         reply.summaries[g].articles[k].summary)


(***************************************************************************)
(* utils/lsm.py called on its own: get_articles_by_date.                   *)
(***************************************************************************)
FetchPool ==
    { Article("B1", "V1", "T1", "Pasaule", Day - 1),
      Article("B2", "V2", "T2", "Latvija", Day),
      Article("B3", "V3", "T3", "Latvija", Day + 23),
      Article("B4", "V4", "T4", "Pasaule", Day + 26),
      Article("B5", "V5", "T5", "Latvija", Day + 27),
      Article("B6", "V6", "T6", "Virtuve", Day + 1),
      Article("B7", "V7", "T7", "Sarunas", Day + 26),
      Article("B8", "V8", "T8", "Pasaule", strptime(DateStr(2025, 1, 1)) + 2) }

FetchDates ==
    { DateStr(2024, 2, 28), DateStr(2024, 2, 29), DateStr(2024, 12, 31),
      DateStr(2025, 1, 1) }

\* get_articles_by_date(col, dt) for the datetime `hour` hours into `date`.
GetArticlesByDate(date, hour) ==
    /\ Idle
    /\ pc' = "done"
    /\ endpoint' = "get_articles_by_date"
    /\ req' = [NoRequest EXCEPT !.date = date, !.dt = strptime(date) + hour]
    /\ fetched' = get_articles_by_date(articles, strptime(date) + hour)
    /\ status' = 200
    /\ UNCHANGED << calls, adk_sessions, create_fails, articles, summaries, reply,
                    result, clock, upserting >>

NextFetch ==
    \/ \E d \in FetchDates, h \in {0, 13} : GetArticlesByDate(d, h)
    \/ Respond
    \/ Ingest(FetchPool)

SpecFetch == Init /\ [][NextFetch]_vars

\* Midnight of the day a datetime lies in.
Midnight(dt) == 24 * (dt \div 24)

InWindow(a, dt) == a.date >= Midnight(dt) /\ a.date < Midnight(dt) + 27

Fetched == endpoint = "get_articles_by_date" /\ pc = "done"

\* C10: get_articles_by_date returns only articles whose category is not
\* in the skip list and whose date lies in [midnight, midnight + 27h); it
\* returns every stored article with both properties, once and in stored
\* order, and the empty sequence when there is none.
C10_WindowAndExclusion ==
    Fetched =>
        /\ \A i \in 1..Len(fetched) :
              /\ fetched[i].category \notin LSM_SKIP_CATEGORIES
              /\ InWindow(fetched[i], req.dt)
              /\ fetched[i] \in Range(articles)
        /\ \A j \in 1..Len(articles) :
              (articles[j].category \notin LSM_SKIP_CATEGORIES
                  /\ InWindow(articles[j], req.dt))
              => \E i \in 1..Len(fetched) : fetched[i] = articles[j]
        /\ NoDuplicates(fetched)
        /\ ((\A j \in 1..Len(articles) :
                articles[j].category \in LSM_SKIP_CATEGORIES
                    \/ ~InWindow(articles[j], req.dt))
              => fetched = << >>)

C10_Witness ==
    /\ Fetched
    /\ Len(fetched) = 1
    /\ fetched[1].date = Midnight(req.dt) + 26
    /\ Len(articles) = 2
    /\ articles[2].category = "Sarunas"

(***************************************************************************)
(* utils/lsm.py called on its own: a sequence of upsert_summary calls.     *)
(***************************************************************************)
UpsertContents ==
    { << >>,
      << [category |-> "Latvija", articles |-> << >>] >>,
      << [category |-> "Pasaule",
          articles |-> << [article_id |-> "A1", title |-> "T1", url |-> "U1",
                           ai_summary |-> "S1"] >>] >> }

UpsertDates == { DateStr(2024, 2, 29), DateStr(2024, 12, 31), DateStr(2025, 2, 29) }

\* One call upsert_summary(col, data); the clock has moved on since the
\* call before.  strptime raises ValueError on a string that is no date.
UpsertSummary(date, summ) ==
    /\ Idle
    /\ IF ~ValidDate(date)
          THEN /\ result' = [NoResult EXCEPT !.detail = "ValueError"]
               /\ UNCHANGED << summaries, clock, calls >>
          ELSE \E now \in (clock + 1)..MaxClock :
               LET data == MongoSummaryDocument(date, summ)
                   up == upsert_summary(summaries, data, now)
               IN  /\ summaries' = up.col
                   /\ clock' = now
                   /\ result' = [detail |-> "", res |-> up.res]
                   /\ calls' = Append(calls, Call("upsert_summary", data, now))
    /\ UNCHANGED << pc, endpoint, req, status, adk_sessions, create_fails, articles,
                    fetched, reply, upserting >>

NextUpsert == \E d \in UpsertDates, c \in UpsertContents : UpsertSummary(d, c)

SpecUpsert == Init /\ [][NextUpsert]_vars

\* The calls made so far for the date of call i.
CallsFor(date) == { i \in 1..Len(calls) : calls[i].key.date = date }

UpsertedDates == { calls[i].key.date : i \in 1..Len(calls) }

C9_Inv ==
    /\ Len(summaries) = Cardinality(UpsertedDates)
    /\ \A d \in UpsertedDates :
          /\ Cardinality(SummaryDocs(d)) = 1
          /\ \A i \in SummaryDocs(d) :
                /\ summaries[i].summaries = calls[SetMax(CallsFor(d))].key.summaries
                /\ DOMAIN summaries[i] = {"id", "date", "summaries", "updated_at"}

\* C9: after any sequence of upsert_summary calls made one after the other
\* the collection holds exactly one document for each date upserted and no
\* other; its summaries are those of the last call for the date; and every
\* call for a date that has a document leaves updated_at strictly greater.
C9_OneDocumentLastContent ==
    /\ []C9_Inv
    /\ [][calls' # calls =>
            \A i \in SummaryDocs(calls'[Len(calls')].key.date) :
                summaries'[i].updated_at > summaries[i].updated_at]_vars

C9_Witness ==
    /\ Len(calls) = 3
    /\ calls[1].key.date = calls[3].key.date
    /\ calls[2].key.date # calls[1].key.date
    /\ calls[1].key.summaries # << >>
    /\ calls[3].key.summaries = << >>
    /\ Len(summaries) = 2

(***************************************************************************)
(* GET /lsm/summary/daily: utils/lsm.get_daily_summary and its handler.    *)
(***************************************************************************)
\* Python's None, as col.find_one returns it when nothing matches.
None == [none |-> TRUE]
IsNone(v) == "none" \in DOMAIN v

\* get_daily_summary(col, date) for a date string strptime accepts:
\* col.find_one({"date": target_date_utc}, {"_id": 0, "date": 1, "summaries": 1}).
get_daily_summary(col, date) ==
    LET target_date_utc == strptime(date)
        matched == { i \in 1..Len(col) : col[i].date = target_date_utc }
    IN  IF matched = {} THEN None
        ELSE [date |-> col[SetMin(matched)].date,
              summaries |-> col[SetMin(matched)].summaries]

\* lsm_schemas.ArticleNoID(**article): article_id is not a field and is dropped.
ArticleNoID(a) == [title |-> a.title, url |-> a.url, ai_summary |-> a.ai_summary]

\* lsm_schemas.DailySummarySchema(**document) of a document found.
DailySummarySchema(document) ==
    [date |-> document.date,
     summaries |-> [g \in 1..Len(document.summaries) |->
                      [category |-> document.summaries[g].category,
                       articles |-> [k \in 1..Len(document.summaries[g].articles) |->
                                       ArticleNoID(document.summaries[g].articles[k])]]]]

DailyDates == { DateStr(2024, 2, 29), DateStr(2024, 12, 31), DateStr(2025, 2, 29) }

\* The handler of GET /lsm/summary/daily, whole: it has no try block, so the
\* ValueError of strptime and the TypeError of DailySummarySchema(**None)
\* leave it and the server answers 500 Internal Server Error.
GetDailySummary(date) ==
    /\ Idle
    /\ pc' = "done"
    /\ endpoint' = "get_daily_summary"
    /\ req' = [NoRequest EXCEPT !.date = date]
    /\ IF ~ValidDate(date)
          THEN /\ status' = 500
               /\ result' = [NoResult EXCEPT !.detail = "Internal Server Error"]
               /\ calls' = << >>
          ELSE LET document == get_daily_summary(summaries, date) IN
               /\ calls' = << Call("find_one", ReqKey,
                                   IF IsNone(document) THEN 0 ELSE 1) >>
               /\ IF IsNone(document)
                     THEN /\ status' = 500
                          /\ result' = [NoResult EXCEPT
                                           !.detail = "Internal Server Error"]
                     ELSE /\ status' = 200
                          /\ result' = [detail |-> "",
                                        res |-> DailySummarySchema(document)]
    /\ UNCHANGED << adk_sessions, create_fails, articles, fetched, summaries,
                    reply, clock, upserting >>

NextDaily ==
    \/ \E d \in UpsertDates, c \in UpsertContents : UpsertSummary(d, c)
    \/ \E d \in DailyDates : GetDailySummary(d)
    \/ Respond

SpecDaily == Init /\ [][NextDaily]_vars

\* GET /lsm/summary/daily has answered a date that has no document.
DailyAbsent ==
    /\ endpoint = "get_daily_summary"
    /\ pc = "done"
    /\ ValidDate(req.date)
    /\ SummaryDocs(req.date) = {}

\* C11: for a date without a persisted daily summary, get_daily_summary
\* returns None and GET /lsm/summary/daily answers not-found (404), not an
\* internal error.
C11_AbsentIsNotFound ==
    DailyAbsent =>
        /\ IsNone(get_daily_summary(summaries, req.date))
        /\ status = 404

(***************************************************************************)
(* Agent invocation: what a chat request's call log and answer say.        *)
(***************************************************************************)
\* The chat request in flight has called /run.
Prompted == endpoint = "chat" /\ HasCall("POST_run")

\* C12: prompt_adk_agent makes exactly one /run call per invocation and
\* never another after it; an answer outside 2xx ends the chat request with
\* the upstream status and a detail carrying the upstream body, a network
\* error ends it with 503, and the caller gets that status unchanged.
C12_OneRunCallStatusPropagated ==
    /\ CountOp("POST_run") <= 1
    /\ Prompted =>
          LET r == calls[Len(calls)].resp IN
          /\ calls[Len(calls)].op = "POST_run"
          /\ pc = "done"
          /\ r = RequestError =>
                /\ status = 503
                /\ result.detail = "Could not connect to ADK api_server run service"
          /\ (r # RequestError /\ ~is_success(r)) =>
                /\ status = r
                /\ result.detail =
                      "Failed to prompt ADK agent via api_server: " \o reply.text
          /\ (r # RequestError /\ is_success(r)) => status = 200

C12_Witness ==
    /\ Prompted
    /\ calls[Len(calls)].resp = 404
    /\ status = 404
    /\ reply.text = "agent not found"
    /\ CountOp("POST_session") = 1

(***************************************************************************)
(* routers/general_router.py (main.py holds the same handlers):            *)
(* GET /articles/{date}, /titles/{date}, /titles/{category_key}/{date}.    *)
(* Here the date path parameter is the sequence of its characters.         *)
(***************************************************************************)
Digits == { "0", "1", "2", "3", "4", "5", "6", "7", "8", "9" }

DigitValue ==
    ("0" :> 0) @@ ("1" :> 1) @@ ("2" :> 2) @@ ("3" :> 3) @@ ("4" :> 4) @@
    ("5" :> 5) @@ ("6" :> 6) @@ ("7" :> 7) @@ ("8" :> 8) @@ ("9" :> 9)

\* Path(..., regex=r"^\d{8}$"): a request whose date does not match is
\* answered 422 by the framework and never reaches the handler.
MatchesDateRegex(path) ==
    Len(path) = 8 /\ \A i \in 1..Len(path) : path[i] \in Digits

\* The number written by the digits path[a..b].
RECURSIVE Number(_, _, _)
Number(path, a, b) ==
    IF b < a THEN 0 ELSE 10 * Number(path, a, b - 1) + DigitValue[path[b]]

\* The fields "%Y%m%d" cuts eight digits into.
DateFields(path) ==
    DateStr(Number(path, 1, 4), Number(path, 5, 6), Number(path, 7, 8))

\* Faulty variant: the fields are taken as they come, no date is refused.
parse_date_unchecked(path) ==
    [raised |-> FALSE, date |-> DateFields(path)]

\* parse_date(date): strptime raises ValueError when the fields are not a
\* calendar date; parse_date raises ValueError again.
parse_date(path) ==
    [raised |-> ~ValidDate(DateFields(path)), date |-> DateFields(path)]

\* filter_date.replace(day=filter_date.day + 1): ValueError when the month
\* has no such day.
replace_next_day(date) ==
    IF date.d + 1 \in 1..DaysInMonth(date.y, date.m)
    THEN [raised |-> FALSE, dt |-> strptime(DateStr(date.y, date.m, date.d + 1))]
    ELSE [raised |-> TRUE, dt |-> 0]

category_mapping == ("c0" :> "None") @@ ("c1" :> "Latvija") @@ ("c2" :> "Pasaule")

\* category_mapping.get(category_key): None for a key it does not hold.
category_of(category_key) ==
    IF category_key \in DOMAIN category_mapping
    THEN category_mapping[category_key] ELSE "None"

\* col.find(query, {"_id": 0, article_part: 1}).to_list(length=100) and the
\* list of the chosen part; `if category:` adds the category to the query.
fetch_article(col, lo, hi, article_part, category) ==
    LET posts == to_list(SelectSeqBy(col, { a \in Range(col) :
                            /\ a.date >= lo
                            /\ a.date < hi
                            /\ (category # "None" => a.category = category) }), 100)
    IN  [i \in 1..Len(posts) |->
            IF article_part = "title" THEN posts[i].title ELSE posts[i].article]

GeneralPaths ==
    { << "2", "0", "2", "4", "0", "2", "2", "8" >>,
      << "2", "0", "2", "4", "0", "2", "2", "9" >>,
      << "2", "0", "2", "4", "0", "3", "0", "1" >>,
      << "2", "0", "2", "4", "1", "2", "3", "1" >>,
      << "2", "0", "2", "5", "0", "2", "2", "9" >>,
      << "2", "0", "2", "4", "1", "3", "0", "1" >>,
      << "2", "0", "2", "4", "0", "2", "0", "0" >>,
      << "2", "0", "2", "4", "0", "2", "2" >>,
      << "2", "0", "2", "4", "-", "0", "2", "-", "2", "9" >>,
      << "t", "o", "d", "a", "y" >> }

CategoryKeys == { "c0", "c1", "c2", "c9" }

GeneralEndpoints == { "articles", "titles", "titles_by_category" }

GeneralPool ==
    { Article("G1", "W1", "T1", "Latvija", Day - 24),
      Article("G2", "W2", "T2", "Pasaule", Day - 1),
      Article("G3", "W3", "T3", "Latvija", Day),
      Article("G4", "W4", "T4", "Pasaule", Day + 24),
      Article("G5", "W5", "T5", "Latvija", Day + 47) }

\* A request arrives at one of the three handlers: the framework checks
\* the path, the handler parses the date and answers 400 on ValueError.
GeneralArrive(handler, article_part, category_key, path) ==
    /\ Idle
    /\ endpoint' = handler
    /\ calls' = << >>
    /\ fetched' = << >>
    /\ IF ~MatchesDateRegex(path)
          THEN /\ req' = [path |-> path, article_part |-> article_part,
                          category_key |-> category_key] @@ NoRequest
               /\ status' = 422
               /\ result' = [NoResult EXCEPT !.detail = "string does not match regex"]
               /\ pc' = "done"
          ELSE LET parsed == parse_date(path) IN
               /\ req' = [path |-> path, article_part |-> article_part,
                          category_key |-> category_key]
                            @@ [NoRequest EXCEPT !.date = parsed.date]
               /\ IF parsed.raised
                     THEN /\ status' = 400
                          /\ result' = [NoResult EXCEPT !.detail =
                                           "Invalid date format. Use YYYYMMDD."]
                          /\ pc' = "done"
                     ELSE /\ status' = 0
                          /\ result' = NoResult
                          /\ pc' = "fetch_article"
    /\ UNCHANGED << adk_sessions, create_fails, articles, summaries, reply, clock,
                    upserting >>

general_get_articles_by_date(path) ==
    GeneralArrive("articles", "article", "c0", path)

get_titles_by_date(path) ==
    GeneralArrive("titles", "title", "c0", path)

get_titles_by_category_and_date(category_key, path) ==
    GeneralArrive("titles_by_category", "title", category_key, path)

\* await fetch_article(filter_date, article_part, category): the query is
\* built first; the ValueError of replace leaves the handler (it is raised
\* outside its try block) and the server answers 500.
FetchArticle ==
    /\ pc = "fetch_article"
    /\ endpoint \in GeneralEndpoints
    /\ pc' = "done"
    /\ LET next_day == replace_next_day(req.date) IN
          IF next_day.raised
          THEN /\ status' = 500
               /\ result' = [NoResult EXCEPT !.detail = "Internal Server Error"]
               /\ UNCHANGED << calls, fetched >>
          ELSE /\ status' = 200
               /\ result' = result
               /\ calls' = Append(calls, Call("find", req.date, 0))
               /\ fetched' = fetch_article(articles, strptime(req.date), next_day.dt,
                                           req.article_part,
                                           category_of(req.category_key))
    /\ UNCHANGED << endpoint, req, adk_sessions, create_fails, articles, summaries,
                    reply, clock, upserting >>

NextGeneral ==
    \/ \E p \in GeneralPaths : general_get_articles_by_date(p)
    \/ \E p \in GeneralPaths : get_titles_by_date(p)
    \/ \E k \in CategoryKeys, p \in GeneralPaths : get_titles_by_category_and_date(k, p)
    \/ FetchArticle
    \/ Respond
    \/ Ingest(GeneralPool)

SpecGeneral == Init /\ [][NextGeneral]_vars

\* One of the three handlers has answered.
GeneralAnswered == endpoint \in GeneralEndpoints /\ pc = "done"

\* C13 as stated: a date that cannot be parsed as a YYYYMMDD calendar date
\* is answered 400 and no query is issued.
C13_UnparsableIs400 ==
    (GeneralAnswered
        /\ (~MatchesDateRegex(req.path) \/ ~ValidDate(DateFields(req.path))))
        => (status = 400 /\ ~HasCall("find"))

\* C13 amended: eight digits that are no calendar date are answered 400,
\* a date that is not eight digits is answered 422 before the handler
\* runs; in both cases no query is issued, and the request is over at once.
C13_BadDateNoQuery ==
    /\ (endpoint \in GeneralEndpoints /\ ~MatchesDateRegex(req.path))
          => (pc = "done" /\ status = 422 /\ calls = << >>)
    /\ (endpoint \in GeneralEndpoints /\ MatchesDateRegex(req.path)
          /\ ~ValidDate(DateFields(req.path)))
          => (pc = "done" /\ status = 400 /\ calls = << >>)

C13_Witness ==
    /\ GeneralAnswered
    /\ endpoint = "titles_by_category"
    /\ req.path = << "2", "0", "2", "5", "0", "2", "2", "9" >>
    /\ status = 400
    /\ Len(articles) = 2

\* C19: for every valid calendar date, the last day of a month and of a
\* year included, GET /articles/{date} and GET /titles/{date} answer 200
\* with the list of the articles dated in [date, next midnight).
C19_EveryValidDateAnswers ==
    (GeneralAnswered /\ endpoint \in {"articles", "titles"}
        /\ MatchesDateRegex(req.path) /\ ValidDate(DateFields(req.path)))
        => /\ status = 200
           /\ HasCall("find")
           /\ Len(fetched) =
                 Cardinality({ i \in 1..Len(articles) :
                                 /\ articles[i].date >= strptime(req.date)
                                 /\ articles[i].date < strptime(req.date) + 24 })

(***************************************************************************)
(* POST /lsm/summary/daily: the parts sent and the index of a request.     *)
(***************************************************************************)
\* The request in flight has built its parts and sent them (count_tokens
\* is the first call that carries them).
PartsSent == endpoint = "lsm_summary" /\ HasCall("count_tokens")

\* The parts the request in flight sent (`contents` of count_tokens).
SentParts ==
    calls[CHOOSE i \in 1..Len(calls) : calls[i].op = "count_tokens"].key

\* C14: within one summarization request the correlation ids sent are
\* pairwise distinct and none equals an article's store id; every id sent
\* maps in the index to the article whose part carried it, and the index
\* has as many entries as parts were sent.
C14_CorrelationIdsUnique ==
    PartsSent =>
        LET parts == SentParts
            index == Index(fetched)
        IN  /\ Len(parts) = Len(fetched)
            /\ \A i, j \in 1..Len(parts) : parts[i].uuid = parts[j].uuid => i = j
            /\ \A i, j \in 1..Len(parts) : parts[i].uuid # fetched[j].id
            /\ \A i \in 1..Len(parts) :
                  /\ parts[i].uuid \in DOMAIN index
                  /\ index[parts[i].uuid] = fetched[i]
            /\ Cardinality(DOMAIN index) = Len(parts)

\* The titles and urls an article could have had instead of its own.
OtherTitles == { "T1", "T9" }
OtherUrls == { "U1", "U9" }

Min(a, b) == IF a <= b THEN a ELSE b

\* What the store returned to the request in flight (the collection does
\* not change while a request is in flight).
StoreReturned == get_articles_by_date(articles, strptime(req.date))

\* C16: whenever a limit n is given, the articles sent to the agent are
\* exactly the first min(n, number fetched) articles in the order the store
\* returned them, for every integer n, 0 included.
C16_LimitTruncates ==
    (PartsSent /\ req.limit.given) =>
        SentParts = Parts(SubSeq(StoreReturned, 1, Min(req.limit.n, Len(StoreReturned))))

\* count_tokens reported more tokens than token_limit to the request in flight.
TokenOver ==
    /\ endpoint = "lsm_summary"
    /\ \E i \in 1..Len(calls) : calls[i].op = "count_tokens" /\ calls[i].resp = 1

\* The answer `except Exception` gives to every failure it did not expect.
GenericFailure == status = 500 /\ result.detail = "Unexpected exception occured"

\* C17: a payload whose token count exceeds the ceiling ends the request
\* with a failure of its own, distinct from the answer to other failures,
\* before the generation call; the request log and the daily-summary
\* collection are not written in the request.
C17_TokenGuardDistinct ==
    TokenOver =>
        /\ pc = "done"
        /\ status >= 400
        /\ ~GenericFailure
        /\ ~HasCall("generate_content")
        /\ ~HasCall("log_insert")
        /\ ~HasCall("upsert_summary")

(***************************************************************************)
(* utils/lsm.py: upsert_summary calls that overlap.  Each call awaits      *)
(* col.update_one(query, {"$set": ...}, upsert=True).  The server runs an  *)
(* upsert in two phases: the query, which updates the matching document    *)
(* in one atomic step when there is one, and, when there is none, the      *)
(* insert of a new document.  The collection has no unique index on date   *)
(* (the repository creates none), so nothing is checked again between the  *)
(* phases.                                                                 *)
(***************************************************************************)
ConcurrentDates == { DateStr(2024, 2, 29), DateStr(2024, 12, 31) }

\* Lines 57-84: the document is prepared, then update_one is awaited.
CallUpsertSummary(w, date, summ) ==
    /\ upserting[w].pc = "idle"
    /\ \E now \in (clock + 1)..MaxClock :
          /\ clock' = now
          /\ upserting' = [upserting EXCEPT ![w] =
                              [pc |-> "update_one",
                               data |-> MongoSummaryDocument(date, summ),
                               now |-> now]]
          /\ calls' = Append(calls, Call("upsert_summary",
                                         MongoSummaryDocument(date, summ), now))
    /\ UNCHANGED << pc, endpoint, req, status, adk_sessions, create_fails, articles,
                    fetched, summaries, reply, result >>

\* update_one, query phase: a matching document is updated at once.
UpdateOneQuery(w) ==
    /\ upserting[w].pc = "update_one"
    /\ LET u == upserting[w]
           matched == { i \in 1..Len(summaries) :
                           summaries[i].date = strptime(u.data.date) }
       IN  IF matched = {}
           THEN /\ upserting' = [upserting EXCEPT ![w].pc = "insert"]
                /\ UNCHANGED << summaries, result >>
           ELSE LET up == upsert_summary(summaries, u.data, u.now) IN
                /\ summaries' = up.col
                /\ result' = [detail |-> "", res |-> up.res]
                /\ upserting' = [upserting EXCEPT ![w].pc = "idle"]
    /\ UNCHANGED << pc, endpoint, req, calls, status, adk_sessions, create_fails,
                    articles, fetched, reply, clock >>

\* update_one, insert phase: the query matched nothing, a document is inserted.
UpdateOneInsert(w) ==
    /\ upserting[w].pc = "insert"
    /\ LET u == upserting[w]
           doc == [id |-> Len(summaries) + 1, date |-> strptime(u.data.date),
                   summaries |-> u.data.summaries, updated_at |-> u.now]
       IN  /\ summaries' = Append(summaries, doc)
           /\ result' = [detail |-> "",
                         res |-> MongoUpdateResult(TRUE, 0, 0, Len(summaries) + 1)]
           /\ upserting' = [upserting EXCEPT ![w].pc = "idle"]
    /\ UNCHANGED << pc, endpoint, req, calls, status, adk_sessions, create_fails,
                    articles, fetched, reply, clock >>

NextConcurrent ==
    \/ \E w \in Workers, d \in ConcurrentDates, c \in UpsertContents :
          CallUpsertSummary(w, d, c)
    \/ \E w \in Workers : UpdateOneQuery(w)
    \/ \E w \in Workers : UpdateOneInsert(w)

SpecConcurrent == Init /\ [][NextConcurrent]_vars

\* No upsert_summary call is in flight.
Quiescent == \A w \in Workers : upserting[w].pc = "idle"

\* Document i holds the content of one whole call for its date.
FromOneCall(i) ==
    \E k \in 1..Len(calls) :
        /\ strptime(calls[k].key.date) = summaries[i].date
        /\ calls[k].key.summaries = summaries[i].summaries
        /\ calls[k].resp = summaries[i].updated_at

C18_Inv ==
    Quiescent =>
        \A d \in UpsertedDates :
            /\ Cardinality(SummaryDocs(d)) = 1
            /\ \A i \in SummaryDocs(d) : FromOneCall(i)

\* A step changes documents only of a date for which a call is in flight.
C18_OtherDatesUntouched ==
    /\ Len(summaries') >= Len(summaries)
    /\ \A i \in 1..Len(summaries) :
          summaries'[i] # summaries[i] =>
              \E w \in Workers :
                  /\ upserting[w].pc # "idle"
                  /\ strptime(upserting[w].data.date) = summaries[i].date

\* C18: under any interleaving of upsert_summary calls that overlap, a call
\* for a date leaves the documents of every other date unchanged, and once
\* the calls are over the collection holds exactly one document for each
\* date upserted, whose content is entirely that of one of the calls.
C18_ConcurrentUpsertsOneDocument ==
    /\ []C18_Inv
    /\ [][C18_OtherDatesUntouched]_vars

====
